---- MODULE Spec2Model ----
(***************************************************************************)
(* Model of src/app.py: the Flask backend of the medical report analyzer.  *)
(*                                                                         *)
(* State: the session store (session_data, a dict guarded by               *)
(* session_lock), the upload folder, the wall clock, the request threads   *)
(* of the server (one record per thread: the handler it runs and that      *)
(* handler's local variables) and the background cleanup thread.           *)
(*                                                                         *)
(* Strings are sequences of tokens (a token is one character, or a word    *)
(* such as "pdf" that the code only ever treats as a whole), so that       *)
(* strip(), rsplit(), lower() and secure_filename() are computed, not      *)
(* assumed.                                                                *)
(***************************************************************************)
EXTENDS Integers, Sequences, FiniteSets, TLC

\* ------------------------------------------------------------------ bounds
\* The clock counts minutes, advances ClockStep at a time and stops at MaxTime.
MaxTime == 40
ClockStep == 10
\* How many session ids uuid4 hands out in one run of Spec, and of
\* SpecRequests.
MaxSessions == 2
MaxRequestSessions == 1
\* The clock's step in SpecPunctual.
FineStep == 5

\* --------------------------------------------------------------- constants
SESSION_TIMEOUT_MINUTES == 30
CLEANUP_INTERVAL_MINUTES == 10
ALLOWED_EXTENSIONS == {<<"pdf">>}
UPLOAD_FOLDER == <<"uploads">>

\* The request threads of the server and the cleanup thread.
Threads == {"t1", "t2"}
Sweeper == "cleanup_thread"
NoThread == "unlocked"

\* ------------------------------------------------------------------ strings
Whitespace == {" ", "\n"}

RECURSIVE lstrip(_)
lstrip(s) ==
    IF s # <<>> /\ Head(s) \in Whitespace THEN lstrip(Tail(s)) ELSE s

RECURSIVE rstrip(_)
rstrip(s) ==
    IF s # <<>> /\ s[Len(s)] \in Whitespace
    THEN rstrip(SubSeq(s, 1, Len(s) - 1))
    ELSE s

\* str.strip()
strip(s) == rstrip(lstrip(s))

\* str.lower(), token by token
lower_token(c) ==
    CASE c = "PDF" -> "pdf"
      [] c = "TXT" -> "txt"
      [] c = "A" -> "a"
      [] OTHER -> c

lower(s) == [i \in 1..Len(s) |-> lower_token(s[i])]

\* The index of the last "." of s, 0 when it has none.
RECURSIVE last_dot(_)
last_dot(s) ==
    IF s = <<>> THEN 0
    ELSE IF s[Len(s)] = "." THEN Len(s)
    ELSE last_dot(SubSeq(s, 1, Len(s) - 1))

\* filename.rsplit('.', 1)[1], for a filename that holds a "."
rsplit_ext(s) == SubSeq(s, last_dot(s) + 1, Len(s))

allowed_file_no_dot(filename) ==
    /\ filename # <<>>
    /\ lower(<<filename[Len(filename)]>>) \in ALLOWED_EXTENSIONS

allowed_file(filename) ==
    /\ last_dot(filename) # 0
    /\ lower(rsplit_ext(filename)) \in ALLOWED_EXTENSIONS

\* werkzeug.utils.secure_filename: path separators become spaces, runs of
\* whitespace become one "_", characters outside [A-Za-z0-9_.-] are dropped,
\* and leading and trailing "." and "_" are stripped.
RECURSIVE replace_sep(_)
replace_sep(s) ==
    IF s = <<>> THEN <<>>
    ELSE <<IF Head(s) = "/" THEN " " ELSE Head(s)>> \o replace_sep(Tail(s))

\* "_".join(s.split())
RECURSIVE join_words(_)
join_words(s) ==
    LET t == lstrip(s) IN
    IF t = <<>> THEN <<>>
    ELSE IF Len(t) > 1 /\ t[2] \in Whitespace
         THEN IF lstrip(Tail(t)) = <<>> THEN <<t[1]>>
              ELSE <<t[1], "_">> \o join_words(Tail(t))
         ELSE <<t[1]>> \o join_words(Tail(t))

UnsafeChars == {"*"}

RECURSIVE ascii_strip(_)
ascii_strip(s) ==
    IF s = <<>> THEN <<>>
    ELSE (IF Head(s) \in UnsafeChars THEN <<>> ELSE <<Head(s)>>)
         \o ascii_strip(Tail(s))

RECURSIVE strip_dots(_)
strip_dots(s) ==
    IF s # <<>> /\ Head(s) \in {".", "_"} THEN strip_dots(Tail(s))
    ELSE IF s # <<>> /\ s[Len(s)] \in {".", "_"}
         THEN strip_dots(SubSeq(s, 1, Len(s) - 1))
         ELSE s

secure_filename(filename) ==
    strip_dots(ascii_strip(join_words(replace_sep(filename))))


\* ---------------------------------------------------------------- the PDFs
\* A PDF as pdfplumber sees it: it fails to open, or it has pages, each with
\* the text extract_text() returns for it (<<>>: None or "").
CorruptPdf == [corrupt |-> TRUE, pages |-> <<>>]
ScannedPdf == [corrupt |-> FALSE, pages |-> << <<>>, <<" ">> >>]
ReportPdf == [corrupt |-> FALSE, pages |-> << <<"Hb">>, <<>>, <<"9.2">> >>]
ShortPdf == [corrupt |-> FALSE, pages |-> << <<" ", "ok">> >>]
PdfContents == {CorruptPdf, ScannedPdf, ReportPdf, ShortPdf}

RECURSIVE concat_pages(_)
concat_pages(pages) ==
    IF pages = <<>> THEN <<>>
    ELSE (IF Head(pages) # <<>> THEN Head(pages) \o <<"\n">> ELSE <<>>)
         \o concat_pages(Tail(pages))

\* Lines 57-62 without the strip of line 64.
extract_text_unstripped(pdf) ==
    [raised |-> pdf.corrupt,
     text |-> IF pdf.corrupt THEN <<>> ELSE concat_pages(pdf.pages)]

extract_text_from_pdf(pdf) ==
    [raised |-> pdf.corrupt,
     text |-> IF pdf.corrupt THEN <<>> ELSE strip(concat_pages(pdf.pages))]

\* ------------------------------------------------------------- the requests
FileNames ==
    { <<>>,
      <<"a", ".", "pdf">>,
      <<"/", "a", " ", "b", ".", "PDF">>,
      <<"report", ".", "txt">>,
      <<"a", "pdf">> }

UUIDPool == <<"u1", "u2", "u3", "u4">>
UUIDs == { <<UUIDPool[i]>> : i \in 1..MaxSessions }

Queries == { <<>>, <<" ">>, <<"q">> }
AskSessionIds == UUIDs \cup { <<>>, <<" ", "u1", " ">> }
AgentOutcomes == { "raises", "blank", "answer" }

NoPdf == [corrupt |-> FALSE, pages |-> <<>>]

NoRequest ==
    [route |-> "none", oversize |-> FALSE, has_file |-> FALSE,
     filename |-> <<>>, content |-> NoPdf,
     json |-> "none", query |-> <<>>, session_id |-> <<>>]

\* An upload: over the 16 MiB cap, or without the "pdf" field, or a file with a
\* name and a content.
BadNames == { <<>>, <<"report", ".", "txt">>, <<"a", "pdf">> }
PdfNames == FileNames \ BadNames

UploadOf(filename, content) ==
    [NoRequest EXCEPT !.route = "upload", !.has_file = TRUE,
                      !.filename = filename, !.content = content]

\* json: "none" (no body, or an empty object), "malformed" (get_json raises),
\* "object" (a JSON object with the two fields).
AskOf(query, session_id) ==
    [NoRequest EXCEPT !.route = "ask", !.json = "object", !.query = query,
                      !.session_id = session_id]

\* Every kind of request: the inputs of SpecRequests.
AllUploadRequests ==
    { [UploadOf(<<"report", ".", "txt">>, ReportPdf) EXCEPT
         !.oversize = TRUE],
      [UploadOf(<<"a", ".", "pdf">>, ReportPdf) EXCEPT !.oversize = TRUE],
      [NoRequest EXCEPT !.route = "upload"] }
    \cup { UploadOf(f, c) : f \in FileNames, c \in PdfContents }

AllAskRequests ==
    { [NoRequest EXCEPT !.route = "ask", !.json = j] :
        j \in {"none", "malformed"} }
    \cup { AskOf(q, s) : q \in Queries, s \in AskSessionIds }

\* The requests of Spec, where two threads and the cleanup thread interleave.
UploadRequests ==
    { UploadOf(<<"/", "a", " ", "b", ".", "PDF">>, ReportPdf),
      UploadOf(<<"a", ".", "pdf">>, ShortPdf),
      UploadOf(<<"a", ".", "pdf">>, ScannedPdf) }

AskRequests == { AskOf(<<"q">>, s) : s \in UUIDs }

\* ------------------------------------------------------------ the responses
NoBody ==
    [session_id |-> <<>>, filename |-> <<>>, text_length |-> 0,
     response |-> <<>>, upload_time |-> [iso |-> 0], active_sessions |-> 0]

NoResponse == [status |-> 0, error |-> "", body |-> NoBody]

ErrorResponse(status, error) ==
    [status |-> status, error |-> error, body |-> NoBody]

\* datetime.isoformat()
isoformat(t) == [iso |-> t]

\* The registered handler of HTTP 413 (an exception that leaves the view).
too_large == ErrorResponse(413, "File too large. Maximum size is 16MB.")


\* ------------------------------------------------------------------- state
VARIABLES
    now,            \* datetime.now(), in minutes
    session_data,   \* the dict: session id -> session record
    key_order,      \* the dict's keys in insertion order (its iteration order)
    session_lock,   \* the thread that holds session_lock, or NoThread
    files,          \* the paths that exist in the upload folder
    issued,         \* the ids uuid4 has returned so far
    th,             \* per request thread: the handler's position and locals
    sw,             \* the cleanup thread: its position and locals
    sent,           \* the response a handler has just returned, on the wire
    last_touch,     \* history: when each session was last inserted or touched
    swept,          \* history: the ids whose entries the cleanup thread deleted
    leaked          \* history: the paths a failed save or removal left behind

vars ==
    <<now, session_data, key_order, session_lock, files, issued, th, sw,
      sent, last_touch, swept, leaked>>

NoSession ==
    [text |-> <<>>, file_path |-> <<>>, filename |-> <<>>, timestamp |-> 0]

Idle ==
    [pc |-> "idle", req |-> NoRequest, session_id |-> <<>>,
     file_path |-> <<>>, text |-> <<>>, session_info |-> NoSession]

Nothing ==
    [req |-> NoRequest, session_id |-> <<>>, file_path |-> <<>>,
     resp |-> NoResponse]

Asleep(wake_at) ==
    [pc |-> "sleep", current_time |-> 0, expired_sessions |-> <<>>,
     file_path |-> <<>>, wake_at |-> wake_at]

InitOf(T) ==
    /\ now = 0
    /\ session_data = <<>>
    /\ key_order = <<>>
    /\ session_lock = NoThread
    /\ files = {}
    /\ issued = {}
    /\ th = [t \in T |-> Idle]
    /\ sw = Asleep(0)
    /\ sent = Nothing
    /\ last_touch = <<>>
    /\ swept = {}
    /\ leaked = {}

\* d[k] = v
dict_set(d, k, v) ==
    [x \in DOMAIN d \cup {k} |-> IF x = k THEN v ELSE d[x]]

\* A del that leaves the entry where it is.
dict_del_forgotten(d, k) == d

\* del d[k]
dict_del(d, k) == [x \in DOMAIN d \ {k} |-> d[x]]

seq_without(q, k) == LET keep(x) == x # k IN SelectSeq(q, keep)

\* The handler running in thread t returns resp for request req: the response
\* goes on the wire and the thread is free for the next request.
Finish(t, req, session_id, file_path, resp) ==
    /\ th' = [th EXCEPT ![t] = Idle]
    /\ sent' = [req |-> req, session_id |-> session_id,
                file_path |-> file_path, resp |-> resp]

\* The last response has been delivered. A response on the wire is delivered
\* before the next step: nothing in the server reads it, so this orders no two
\* steps of the program.
Ready == sent = Nothing

\* The client receives the response.
Deliver ==
    /\ sent # Nothing
    /\ sent' = Nothing
    /\ UNCHANGED <<now, session_data, key_order, session_lock, files, issued,
                   th, sw, last_touch, swept, leaked>>

TickBy(minutes) ==
    /\ Ready
    /\ now + minutes <= MaxTime
    /\ now' = now + minutes
    /\ UNCHANGED <<session_data, key_order, session_lock, files, issued, th,
                   sw, sent, last_touch, swept, leaked>>

\* Time passes, whatever the threads are doing.
Tick == TickBy(ClockStep)

\* Time passes only while the cleanup thread sleeps and is not yet due: it
\* wakes the moment its sleep is over and its pass takes no time.
PunctualTick ==
    /\ sw.pc = "sleep"
    /\ now < sw.wake_at
    /\ TickBy(FineStep)

\* ----------------------------------------------------------------- /upload
\* Lines 113-124: the checks before anything is saved. NoResponse: all passed.
\* request.files parses the body, and raises RequestEntityTooLarge for a body
\* over MAX_CONTENT_LENGTH: inside the try, so the handler's own
\* `except Exception` answers, not the 413 error handler.
upload_validate(req) ==
    IF req.oversize
    THEN ErrorResponse(500, "Upload failed: 413 Request Entity Too Large")
    ELSE IF ~req.has_file THEN ErrorResponse(400, "No file provided")
    ELSE IF req.filename = <<>> THEN ErrorResponse(400, "No file selected")
    ELSE IF ~allowed_file(req.filename)
         THEN ErrorResponse(400, "Only PDF files are allowed")
    ELSE NoResponse

\* str(uuid.uuid4()): an id never returned before. Ids are interchangeable:
\* the first unused one of the pool stands for any of them.
first_unused(used) ==
    CHOOSE i \in 1..Len(UUIDPool) :
        /\ <<UUIDPool[i]>> \notin used
        /\ \A j \in 1..(i - 1) : <<UUIDPool[j]>> \in used

uuid4_colliding(used) == UUIDs

uuid4(used) == { <<UUIDPool[first_unused(used)]>> }

\* A path that leaves the session id out.
upload_path_shared(session_id, filename) ==
    UPLOAD_FOLDER \o <<"/">> \o secure_filename(filename)

\* f"{session_id}_{secure_filename(file.filename)}" under UPLOAD_FOLDER
upload_path(session_id, filename) ==
    UPLOAD_FOLDER \o <<"/">> \o session_id \o <<"_">>
        \o secure_filename(filename)

\* The name kept in the session and returned to the client: file.filename.
stored_filename(req) == req.filename

upload_success(session_id, filename, text) ==
    [status |-> 200, error |-> "",
     body |-> [NoBody EXCEPT !.session_id = session_id,
                             !.filename = filename,
                             !.text_length = Len(text)]]

\* Lines 113-132: validation, uuid4, file.save. A save that raises leaves no
\* file or a partial one, and the outer `except Exception` answers.
UploadReceive(t, req, cap) ==
    /\ Ready
    /\ th[t].pc = "idle"
    /\ LET early == upload_validate(req) IN
       IF early # NoResponse
       THEN /\ Finish(t, req, <<>>, <<>>, early)
            /\ UNCHANGED <<files, issued, leaked>>
       ELSE /\ Cardinality(issued) < cap
            /\ \E sid \in uuid4(issued),
                  saved \in {"saved", "failed", "failed_partial"} :
               LET path == upload_path(sid, req.filename) IN
               /\ issued' = issued \cup {sid}
               /\ files' = IF saved = "failed" THEN files
                           ELSE files \cup {path}
               /\ leaked' = IF saved = "failed_partial"
                            THEN leaked \cup {path} ELSE leaked
               /\ IF saved = "saved"
                  THEN /\ th' = [th EXCEPT ![t] =
                                   [Idle EXCEPT !.pc = "extract",
                                                !.req = req,
                                                !.session_id = sid,
                                                !.file_path = path]]
                       /\ sent' = sent
                  ELSE Finish(t, req, sid, path,
                              ErrorResponse(500, "Upload failed: save"))
    /\ UNCHANGED <<now, session_data, key_order, session_lock, sw,
                   last_touch, swept>>

\* Lines 135-147: extraction, and the removal of the file when it fails or
\* yields no text. os.remove may raise: nothing catches it before the
\* handler's outer `except Exception`.
UploadExtract(t) ==
    /\ Ready
    /\ th[t].pc = "extract"
    /\ LET r == extract_text_from_pdf(th[t].req.content)
           path == th[t].file_path
           failure ==
               IF r.raised
               THEN ErrorResponse(400, "Failed to process PDF")
               ELSE ErrorResponse(400,
                      "No text could be extracted from the PDF")
       IN
       IF r.raised \/ r.text = <<>>
       THEN IF path \in files
            THEN \E removed \in BOOLEAN :
                   /\ files' = IF removed THEN files \ {path} ELSE files
                   /\ leaked' = IF removed THEN leaked
                                ELSE leaked \cup {path}
                   /\ Finish(t, th[t].req, th[t].session_id, path,
                             IF removed THEN failure
                             ELSE ErrorResponse(500, "Upload failed: remove"))
            ELSE /\ UNCHANGED <<files, leaked>>
                 /\ Finish(t, th[t].req, th[t].session_id, path, failure)
       ELSE /\ UNCHANGED <<files, leaked>>
            /\ th' = [th EXCEPT ![t].pc = "insert_wait", ![t].text = r.text]
            /\ sent' = sent
    /\ UNCHANGED <<now, session_data, key_order, session_lock, issued, sw,
                   last_touch, swept>>

\* Line 150: with session_lock
UploadAcquire(t) ==
    /\ Ready
    /\ th[t].pc = "insert_wait"
    /\ session_lock = NoThread
    /\ session_lock' = t
    /\ th' = [th EXCEPT ![t].pc = "insert"]
    /\ UNCHANGED <<now, session_data, key_order, files, issued, sw, sent,
                   last_touch, swept, leaked>>

\* Lines 151-163: the insert under the lock, its release, the response.
UploadInsert(t) ==
    /\ Ready
    /\ th[t].pc = "insert"
    /\ session_lock = t
    /\ LET sid == th[t].session_id
           name == stored_filename(th[t].req)
           rec == [text |-> th[t].text, file_path |-> th[t].file_path,
                   filename |-> name, timestamp |-> now]
       IN
       /\ session_data' = dict_set(session_data, sid, rec)
       /\ key_order' = IF sid \in DOMAIN session_data THEN key_order
                       ELSE Append(key_order, sid)
       /\ last_touch' = dict_set(last_touch, sid, now)
       /\ Finish(t, th[t].req, sid, th[t].file_path,
                 upload_success(sid, name, th[t].text))
    /\ session_lock' = NoThread
    /\ UNCHANGED <<now, files, issued, sw, swept, leaked>>

\* -------------------------------------------------------------------- /ask
SessionNotFound ==
    ErrorResponse(400,
      "Session not found or expired. Please upload your PDF again.")

\* Lines 171-183: the checks before the store is read. NoResponse: all passed.
\* get_json raises on a malformed body: the outer `except Exception` answers.
ask_validate(req) ==
    IF req.json = "malformed"
    THEN ErrorResponse(500, "Failed to process question: 400 Bad Request")
    ELSE IF req.json = "none" THEN ErrorResponse(400, "No JSON data provided")
    ELSE IF strip(req.query) = <<>>
         THEN ErrorResponse(400, "No question provided")
    ELSE IF strip(req.session_id) = <<>>
         THEN ErrorResponse(400, "No session ID provided")
    ELSE NoResponse

AskReceive(t, req) ==
    /\ Ready
    /\ th[t].pc = "idle"
    /\ LET early == ask_validate(req) IN
       IF early # NoResponse
       THEN Finish(t, req, <<>>, <<>>, early)
       ELSE /\ th' = [th EXCEPT ![t] =
                        [Idle EXCEPT !.pc = "ask_wait", !.req = req,
                                     !.session_id = strip(req.session_id)]]
            /\ sent' = sent
    /\ UNCHANGED <<now, session_data, key_order, session_lock, files, issued,
                   sw, last_touch, swept, leaked>>

\* Line 186 entered without waiting for session_lock to be free.
AskAcquireUnguarded(t) ==
    /\ Ready
    /\ th[t].pc = "ask_wait"
    /\ session_lock' = t
    /\ th' = [th EXCEPT ![t].pc = "ask_locked"]
    /\ UNCHANGED <<now, session_data, key_order, files, issued, sw, sent,
                   last_touch, swept, leaked>>

\* Line 186: with session_lock
AskAcquire(t) ==
    /\ Ready
    /\ th[t].pc = "ask_wait"
    /\ session_lock = NoThread
    /\ session_lock' = t
    /\ th' = [th EXCEPT ![t].pc = "ask_locked"]
    /\ UNCHANGED <<now, session_data, key_order, files, issued, sw, sent,
                   last_touch, swept, leaked>>

\* Line 192: session_info['timestamp'] = datetime.now()
touch_forgotten(record, t) == record

\* A touch that also drops the record's text.
touch_clobbering(record, t) ==
    [record EXCEPT !.timestamp = t, !.text = <<>>]

touch(record, t) == [record EXCEPT !.timestamp = t]

\* Lines 187-192: the lookup and the touch under the lock, and its release.
\* Nothing here compares the session's timestamp with the timeout.
\* session_info keeps what the handler reads of the record afterwards.
AskLookup(t) ==
    /\ Ready
    /\ th[t].pc = "ask_locked"
    /\ session_lock = t
    /\ LET sid == th[t].session_id IN
       IF sid \notin DOMAIN session_data
       THEN /\ Finish(t, th[t].req, sid, <<>>, SessionNotFound)
            /\ UNCHANGED <<session_data, last_touch>>
       ELSE /\ session_data' =
                 [session_data EXCEPT ![sid] = touch(@, now)]
            /\ last_touch' = [last_touch EXCEPT ![sid] = now]
            /\ th' = [th EXCEPT
                        ![t].pc = "agent",
                        ![t].session_info =
                            [NoSession EXCEPT
                               !.text = session_data[sid].text,
                               !.filename = session_data[sid].filename]]
            /\ sent' = sent
    /\ session_lock' = NoThread
    /\ UNCHANGED <<now, key_order, files, issued, sw, swept, leaked>>

EmptyFallback == <<"I apologize, but I couldn't generate a response.">>
ErrorFallback == <<"I'm sorry, but I encountered an error.">>

\* What agent.run streams: it raises, or its chunks concatenate to a text.
agent_text(outcome) ==
    CASE outcome = "blank" -> <<" ", "\n">>
      [] outcome = "answer" -> <<"Hb", " ", "is", " ", "low">>
      [] OTHER -> <<>>

\* Lines 210-220 without the strip of line 215.
collect_response_unstripped(outcome) ==
    IF outcome = "raises" THEN ErrorFallback
    ELSE IF agent_text(outcome) = <<>> THEN EmptyFallback
    ELSE agent_text(outcome)

\* Lines 210-220
collect_response(outcome) ==
    IF outcome = "raises" THEN ErrorFallback
    ELSE IF strip(agent_text(outcome)) = <<>> THEN EmptyFallback
    ELSE agent_text(outcome)

\* Lines 195-225: the agent call, outside the lock, and the response.
AskAgent(t, outcome) ==
    /\ Ready
    /\ th[t].pc = "agent"
    /\ outcome \in AgentOutcomes
    /\ Finish(t, th[t].req, th[t].session_id, <<>>,
              [status |-> 200, error |-> "",
               body |-> [NoBody EXCEPT
                           !.response = collect_response(outcome),
                           !.filename = th[t].session_info.filename]])
    /\ UNCHANGED <<now, session_data, key_order, session_lock, files, issued,
                   sw, last_touch, swept, leaked>>

\* ---------------------------------------------------------- /session/<id>
\* Lines 234-242
session_info_response(store, session_id) ==
    IF session_id \notin DOMAIN store
    THEN ErrorResponse(404, "Session not found")
    ELSE [status |-> 200, error |-> "",
          body |-> [NoBody EXCEPT
                      !.filename = store[session_id].filename,
                      !.text_length = Len(store[session_id].text),
                      !.upload_time =
                          isoformat(store[session_id].timestamp)]]

\* Line 233: with session_lock
SessionAcquire(t, sid) ==
    /\ Ready
    /\ th[t].pc = "idle"
    /\ sid \in UUIDs
    /\ session_lock = NoThread
    /\ session_lock' = t
    /\ th' = [th EXCEPT ![t] =
                [Idle EXCEPT !.pc = "session_locked",
                             !.req = [NoRequest EXCEPT
                                        !.route = "session",
                                        !.session_id = sid],
                             !.session_id = sid]]
    /\ UNCHANGED <<now, session_data, key_order, files, issued, sw, sent,
                   last_touch, swept, leaked>>

\* Lines 234-242: the read under the lock, its release, the response.
SessionRead(t) ==
    /\ Ready
    /\ th[t].pc = "session_locked"
    /\ session_lock = t
    /\ Finish(t, th[t].req, th[t].session_id, <<>>,
              session_info_response(session_data, th[t].session_id))
    /\ session_lock' = NoThread
    /\ UNCHANGED <<now, session_data, key_order, files, issued, sw,
                   last_touch, swept, leaked>>

\* ------------------------------------------------------------------ /health
\* Lines 247-251: len(session_data), read without the lock.
\* A count of the sessions within the timeout only.
health_response_unexpired(store, t) ==
    [status |-> 200, error |-> "",
     body |-> [NoBody EXCEPT
                 !.active_sessions =
                     Cardinality({s \in DOMAIN store :
                         t - store[s].timestamp <= SESSION_TIMEOUT_MINUTES}),
                 !.upload_time = isoformat(t)]]

health_response(store, t) ==
    [status |-> 200, error |-> "",
     body |-> [NoBody EXCEPT !.active_sessions = Cardinality(DOMAIN store),
                             !.upload_time = isoformat(t)]]

HealthCheck(t) ==
    /\ Ready
    /\ th[t].pc = "idle"
    /\ Finish(t, [NoRequest EXCEPT !.route = "health"], <<>>, <<>>,
              health_response(session_data, now))
    /\ UNCHANGED <<now, session_data, key_order, session_lock, files, issued,
                   sw, last_touch, swept, leaked>>

\* ------------------------------------------------------- the cleanup thread
\* Line 77
is_expired_inclusive(current_time, timestamp) ==
    current_time - timestamp >= SESSION_TIMEOUT_MINUTES

\* Line 77 with twice the timeout.
is_expired_doubled(current_time, timestamp) ==
    current_time - timestamp > 2 * SESSION_TIMEOUT_MINUTES

is_expired(current_time, timestamp) ==
    current_time - timestamp > SESSION_TIMEOUT_MINUTES

\* Lines 76-78: the scan, in the dict's iteration order.
expired_in(store, order, current_time) ==
    LET old(sid) == is_expired(current_time, store[sid].timestamp)
    IN SelectSeq(order, old)

\* Lines 70-73: the sleep is over; current_time is read before the lock is
\* asked for.
SweepBegin ==
    /\ Ready
    /\ sw.pc = "sleep"
    /\ now >= sw.wake_at
    /\ sw' = [sw EXCEPT !.pc = "wait", !.current_time = now]
    /\ UNCHANGED <<now, session_data, key_order, session_lock, files, issued,
                   th, sent, last_touch, swept, leaked>>

\* Lines 75-78: the lock is taken and the store scanned.
SweepScan ==
    /\ Ready
    /\ sw.pc = "wait"
    /\ session_lock = NoThread
    /\ session_lock' = Sweeper
    /\ sw' = [sw EXCEPT !.pc = "delete",
                        !.expired_sessions =
                            expired_in(session_data, key_order,
                                       sw.current_time)]
    /\ UNCHANGED <<now, session_data, key_order, files, issued, th, sent,
                   last_touch, swept, leaked>>

\* Lines 82-88: the file of the first expired session left is removed if it
\* exists; a failure is swallowed. The entry is still in the store.
SweepRemoveFile ==
    /\ Ready
    /\ sw.pc = "delete"
    /\ sw.expired_sessions # <<>>
    /\ sw.file_path = <<>>
    /\ session_lock = Sweeper
    /\ LET path == session_data[Head(sw.expired_sessions)].file_path IN
       /\ \E removed \in BOOLEAN :
            /\ files' = IF removed THEN files \ {path} ELSE files
            /\ leaked' = IF removed \/ path \notin files THEN leaked
                         ELSE leaked \cup {path}
       /\ sw' = [sw EXCEPT !.file_path = path]
    /\ UNCHANGED <<now, session_data, key_order, session_lock, issued, th,
                   sent, last_touch, swept>>

\* Line 91: del session_data[session_id], and on to the next expired session.
SweepDelete ==
    /\ Ready
    /\ sw.pc = "delete"
    /\ sw.expired_sessions # <<>>
    /\ sw.file_path # <<>>
    /\ session_lock = Sweeper
    /\ LET sid == Head(sw.expired_sessions) IN
       /\ session_data' = dict_del(session_data, sid)
       /\ key_order' = seq_without(key_order, sid)
       /\ swept' = swept \cup {sid}
       /\ sw' = [sw EXCEPT !.expired_sessions = Tail(@),
                           !.file_path = <<>>]
    /\ UNCHANGED <<now, session_lock, files, issued, th, sent, last_touch,
                   leaked>>

\* Lines 92-99: the lock is released and the thread sleeps for the interval.
\* current_time is reset: nothing reads it before line 72 assigns it again.
SweepEnd ==
    /\ Ready
    /\ sw.pc = "delete"
    /\ sw.expired_sessions = <<>>
    /\ session_lock = Sweeper
    /\ session_lock' = NoThread
    /\ sw' = Asleep(now + CLEANUP_INTERVAL_MINUTES)
    /\ UNCHANGED <<now, session_data, key_order, files, issued, th, sent,
                   last_touch, swept, leaked>>

\* -------------------------------------------------------- the specification
\* The steps of the request threads T, taking uploads from U and questions
\* from A, the agent answering as in G, with at most cap session ids handed
\* out.
ProgramStep(T, U, A, G, cap) ==
    \/ SweepBegin
    \/ SweepScan
    \/ SweepRemoveFile
    \/ SweepDelete
    \/ SweepEnd
    \/ Deliver
    \/ \E t \in T :
         \/ \E req \in U : UploadReceive(t, req, cap)
         \/ UploadExtract(t)
         \/ UploadAcquire(t)
         \/ UploadInsert(t)
         \/ \E req \in A : AskReceive(t, req)
         \/ AskAcquire(t)
         \/ AskLookup(t)
         \/ \E outcome \in G : AskAgent(t, outcome)
         \/ \E sid \in UUIDs : SessionAcquire(t, sid)
         \/ SessionRead(t)
         \/ HealthCheck(t)

Init == InitOf(Threads)

Next ==
    \/ Tick
    \/ ProgramStep(Threads, UploadRequests, AskRequests, {"answer"},
                   MaxSessions)

\* Two request threads and the cleanup thread.
Spec == Init /\ [][Next]_vars

\* One request thread and the cleanup thread, with every kind of request.
InitRequests == InitOf({"t1"})

NextRequests ==
    \/ Tick
    \/ ProgramStep({"t1"}, AllUploadRequests, AllAskRequests, AgentOutcomes,
                   MaxRequestSessions)

SpecRequests == InitRequests /\ [][NextRequests]_vars

\* One request thread and a cleanup thread that is never late.
NextPunctual ==
    \/ PunctualTick
    \/ ProgramStep({"t1"}, UploadRequests, AskRequests, {"answer"},
                   MaxRequestSessions)

SpecPunctual == InitRequests /\ [][NextPunctual]_vars

\* Fair scheduling: time passes and the cleanup thread gets its turn, also
\* for session_lock, however often the request thread takes it; a handler
\* that holds the lock goes on to release it, and a response is delivered.
Fairness ==
    /\ SF_vars(PunctualTick)
    /\ SF_vars(SweepBegin)
    /\ SF_vars(SweepScan)
    /\ SF_vars(SweepRemoveFile)
    /\ SF_vars(SweepDelete)
    /\ SF_vars(SweepEnd)
    /\ WF_vars(Deliver)
    /\ WF_vars(UploadInsert("t1"))
    /\ WF_vars(AskLookup("t1"))
    /\ WF_vars(SessionRead("t1"))

\* SpecPunctual under fair scheduling.
SpecFair == SpecPunctual /\ Fairness

\* ------------------------------------------------------------------- claims
\* A handler returns in this step: its response goes on the wire.
Answers == sent = Nothing /\ sent' # Nothing

Timestamp(s) == session_data[s].timestamp

\* C1: as claimed. An /ask whose session id was never issued, or whose
\* session's timestamp is more than 30 minutes old when the handler looks it
\* up, is answered 400 "Session not found or expired" by that lookup.
C1_StaleSessionRejected ==
    [][\A t \in DOMAIN th :
          ( /\ th[t].pc = "ask_locked"
            /\ th'[t].pc # "ask_locked"
            /\ \/ th[t].session_id \notin issued
               \/ /\ th[t].session_id \in DOMAIN session_data
                  /\ now - Timestamp(th[t].session_id)
                       > SESSION_TIMEOUT_MINUTES )
          => sent'.resp = SessionNotFound]_vars

\* The handler of /ask returns in this step, and the session the request
\* names was in the store when the handler looked it up (or is, when the
\* request is turned down before the lookup).
AskAnswers ==
    /\ Answers
    /\ sent'.req.route = "ask"
    /\ sent'.req.json = "object"

SessionWasPresent ==
    \/ \E t \in DOMAIN th : th[t].pc = "agent" /\ th'[t].pc = "idle"
    \/ sent'.req.session_id \in DOMAIN session_data

AnsweredWithText ==
    /\ sent'.resp.status = 200
    /\ strip(sent'.resp.body.response) # <<>>

\* C2: as claimed. An /ask with a non-empty query and the id of a session in
\* the store is answered 200 with a non-empty response.
C2_NonEmptyQueryAnswered ==
    [][(AskAnswers /\ SessionWasPresent /\ sent'.req.query # <<>>)
          => AnsweredWithText]_vars

\* C2, amended: an /ask whose query is non-empty after its surrounding
\* whitespace is stripped, with the id of a session in the store, is answered
\* 200 with a response that is not blank: the agent's text, or a fallback when
\* the agent raises or yields only whitespace.
C2_StrippedQueryAnswered ==
    [][(AskAnswers /\ SessionWasPresent /\ strip(sent'.req.query) # <<>>)
          => AnsweredWithText]_vars

\* C2's case: the agent raised, the session was swept while the agent ran, and
\* the answer is the fallback with status 200.
C2_Witness ==
    /\ sent.req.route = "ask"
    /\ sent.resp.status = 200
    /\ sent.resp.body.response = ErrorFallback
    /\ sent.session_id \notin DOMAIN session_data

\* C3: a session inserted or touched at time t is in the store at every time
\* up to t + 30 minutes, whatever the cleanup thread does in between, and an
\* /ask that looks it up in that time finds it.
C3_TouchedSessionFound ==
    [][ /\ \A s \in DOMAIN last_touch' :
             now' - last_touch'[s] <= SESSION_TIMEOUT_MINUTES
                => s \in DOMAIN session_data'
        /\ \A t \in DOMAIN th :
             ( /\ th[t].pc = "ask_locked"
               /\ th'[t].pc # "ask_locked"
               /\ th[t].session_id \in DOMAIN last_touch
               /\ now - last_touch[th[t].session_id]
                    <= SESSION_TIMEOUT_MINUTES )
             => th'[t].pc = "agent" ]_vars

\* C3's case: the cleanup thread read its current_time, then an /ask touched a
\* session, then the cleanup thread scanned the store: the session is there.
C3_Witness ==
    /\ sw.pc = "delete"
    /\ \E s \in DOMAIN session_data :
         /\ last_touch[s] > sw.current_time
         /\ \E t \in DOMAIN th : th[t].pc = "agent" /\ th[t].session_id = s

\* C4: a pass of the cleanup thread deletes only sessions whose timestamp is
\* more than 30 minutes before the pass's current_time, and when its deletions
\* are done no such session is left, whether or not the files could be removed.
C4_SweepRemovesExactlyExpired ==
    [][ /\ \A s \in DOMAIN session_data \ DOMAIN session_data' :
             /\ sw.pc = "delete"
             /\ sw.current_time - Timestamp(s) > SESSION_TIMEOUT_MINUTES
        /\ (sw'.pc = "delete" /\ sw'.expired_sessions = <<>>)
             => \A s \in DOMAIN session_data' :
                  sw'.current_time - session_data'[s].timestamp
                     <= SESSION_TIMEOUT_MINUTES ]_vars

\* The file saved for session id s is still in the upload folder.
FileLeft(s) == \E p \in files : SubSeq(p, 3, 3) = s

\* C4's case: a pass is through its deletions; it deleted a session whose file
\* could not be removed, and kept another.
C4_Witness ==
    /\ sw.pc = "delete"
    /\ sw.expired_sessions = <<>>
    /\ DOMAIN session_data # {}
    /\ \E s \in DOMAIN last_touch \ DOMAIN session_data : FileLeft(s)

\* C5: when /upload succeeds, the session id it returns was returned by no
\* earlier upload, and /session/<id> on the store as it then is reports the
\* filename and the text_length of the upload's response, the length positive.
C5_UploadThenSessionInfo ==
    [][\A t \in DOMAIN th :
          (th[t].pc = "insert" /\ th'[t].pc = "idle")
          => LET id == sent'.resp.body.session_id
                 info == session_info_response(session_data', id)
             IN /\ sent'.resp.status = 200
                /\ id \notin DOMAIN last_touch
                /\ info.status = 200
                /\ info.body.filename = sent'.resp.body.filename
                /\ info.body.text_length = sent'.resp.body.text_length
                /\ info.body.text_length > 0 ]_vars

\* C5's case: a second upload has succeeded.
C5_Witness ==
    /\ sent.req.route = "upload"
    /\ sent.resp.status = 200
    /\ Cardinality(DOMAIN last_touch) = 2

\* C6: as claimed. An /upload that fails at one of the stages the claim lists
\* (so not for its size) is answered 400, adds no session, and leaves no file
\* of its own in the upload folder unless removing that file is what failed.
C6_FailedUploadCleansUp ==
    (sent.req.route = "upload" /\ sent.resp.status # 200
        /\ ~sent.req.oversize)
    => /\ sent.resp.status = 400
       /\ sent.session_id \notin DOMAIN session_data
       /\ sent.resp.error # "Upload failed: remove"
            => sent.file_path \notin files

\* C7: as claimed. The filename a response reports is a sanitized name (one
\* secure_filename leaves as it is), and for /upload it is the sanitized form
\* of the name the client sent, which is also what the session stores.
C7_SanitizedFilename ==
    (sent.req.route \in {"upload", "ask", "session"}
        /\ sent.resp.status = 200)
    => /\ sent.resp.body.filename = secure_filename(sent.resp.body.filename)
       /\ sent.req.route = "upload"
            => /\ sent.resp.body.filename = secure_filename(sent.req.filename)
               /\ sent.session_id \in DOMAIN session_data
                    => session_data[sent.session_id].filename
                         = secure_filename(sent.req.filename)

\* C8: as claimed. The upload_time /session/<id> reports for a session is the
\* time /upload inserted it: it is the clock's reading in the step that
\* inserts the session and no later step changes it while the session is in
\* the store; an id not in the store gets 404.
C8_UploadTimeIsCreationTime ==
    [][ /\ \A s \in DOMAIN session_data' \ DOMAIN session_data :
             session_info_response(session_data', s).body.upload_time
                = isoformat(now)
        /\ \A s \in DOMAIN session_data' \cap DOMAIN session_data :
             session_info_response(session_data', s).body.upload_time
                = session_info_response(session_data, s).body.upload_time
        /\ \A s \in UUIDs \ DOMAIN session_data' :
             session_info_response(session_data', s).status = 404 ]_vars

\* C9: as claimed. An /upload over the size cap is answered by the 413 handler.
C9_OversizeGets413 ==
    (sent.req.route = "upload" /\ sent.req.oversize) => sent.resp = too_large

\* The name ends in ".pdf", in any case.
EndsWithDotPdf(name) ==
    /\ Len(name) >= 2
    /\ name[Len(name) - 1] = "."
    /\ name[Len(name)] \in {"pdf", "PDF"}

ExtensionError == ErrorResponse(400, "Only PDF files are allowed")

\* C10: as claimed. An /upload of a file whose name does not end in .pdf is
\* answered 400 with the extension error.
C10_NonPdfRejected ==
    (sent.req.route = "upload" /\ sent.req.has_file
        /\ ~EndsWithDotPdf(sent.req.filename))
    => sent.resp = ExtensionError

\* C10, amended: an /upload within the size cap, of a file whose name is not
\* empty and does not end in .pdf, is answered 400 with the extension error
\* whatever the content, in a step that saves no file, generates no session
\* id and leaves the store as it is.
C10_NamedNonPdfRejected ==
    [][( /\ Answers
         /\ sent'.req.route = "upload"
         /\ ~sent'.req.oversize
         /\ sent'.req.has_file
         /\ sent'.req.filename # <<>>
         /\ ~EndsWithDotPdf(sent'.req.filename) )
       => /\ sent'.resp = ExtensionError
          /\ \E t \in DOMAIN th : th[t].pc = "idle"
          /\ files' = files
          /\ issued' = issued
          /\ session_data' = session_data ]_vars

\* C10's case: report.txt holding a corrupt PDF has been turned down for its
\* extension.
C10_Witness ==
    /\ sent.req.route = "upload"
    /\ sent.req.filename = <<"report", ".", "txt">>
    /\ sent.req.content = CorruptPdf
    /\ sent.resp = ExtensionError

\* C11: the active_sessions /health returns is the number of sessions that
\* have been inserted and whose entry the cleanup thread has not deleted, at
\* the step where the handler reads the store without the lock.
C11_HealthCountsLiveSessions ==
    [][(Answers /\ sent'.req.route = "health")
         => sent'.resp.body.active_sessions
              = Cardinality(DOMAIN last_touch \ swept)]_vars

\* C11's case: /health answered while a pass of the cleanup thread had deleted
\* one session and was between removing the file of the next and deleting its
\* entry.
C11_Witness ==
    /\ sent.req.route = "health"
    /\ sent.resp.body.active_sessions = 1
    /\ sw.pc = "delete"
    /\ sw.file_path # <<>>
    /\ swept # {}

\* C12: as claimed. Every session in the store is within the timeout: its
\* timestamp is at most 30 minutes before now.
C12_StoredSessionsWithinTimeout ==
    \A s \in DOMAIN session_data :
        now - Timestamp(s) <= SESSION_TIMEOUT_MINUTES

\* The threads inside an operation that changes the store: the insert of
\* /upload, the lookup and touch of /ask, the scan and deletions of a pass.
InMapOperation ==
    {t \in DOMAIN th : th[t].pc \in {"insert", "ask_locked"}}
        \cup (IF sw.pc = "delete" THEN {Sweeper} ELSE {})

\* C13: at most one thread is inside an operation that changes the store, and
\* it holds session_lock from the start of the operation to its end; only that
\* thread changes the store; a touch is applied to a session that is in the
\* store and no pass has deleted, and the timestamp the store holds for a
\* session is always that of its last touch (or of its insert).
C13_MutationsExclusive ==
    [][ /\ Cardinality(InMapOperation') <= 1
        /\ \A x \in InMapOperation' : session_lock' = x
        /\ session_data' # session_data
             => session_lock \in InMapOperation
        /\ \A t \in DOMAIN th :
             (th[t].pc = "ask_locked" /\ th'[t].pc = "agent")
             => /\ th[t].session_id \notin swept
                /\ th[t].session_id \in DOMAIN session_data
                /\ th[t].session_id \in DOMAIN session_data'
                /\ session_data'[th[t].session_id].timestamp = now
        /\ \A s \in DOMAIN session_data' :
             session_data'[s].timestamp = last_touch'[s] ]_vars

\* C13's case: a pass holds the lock with an expired session still to delete,
\* while an /ask for that session and an upload's insert wait for the lock.
C13_Witness ==
    /\ session_lock = Sweeper
    /\ sw.expired_sessions # <<>>
    /\ \E t \in DOMAIN th :
         /\ th[t].pc = "ask_wait"
         /\ th[t].session_id = Head(sw.expired_sessions)
    /\ \E t \in DOMAIN th : th[t].pc = "insert_wait"

\* C14: as claimed. In every state the file_path of every session in the store
\* is a file in the upload folder.
C14_StoredFilesExist ==
    \A s \in DOMAIN session_data : session_data[s].file_path \in files

\* C14, amended: the file_path of every session in the store is a file in the
\* upload folder, except for the one session the cleanup thread is deleting,
\* under the lock, between removing its file and deleting its entry.
C14_StoredFilesExistUnlessBeingDeleted ==
    \A s \in DOMAIN session_data :
        \/ session_data[s].file_path \in files
        \/ /\ session_lock = Sweeper
           /\ sw.expired_sessions # <<>>
           /\ Head(sw.expired_sessions) = s
           /\ sw.file_path = session_data[s].file_path

\* C14's case: the cleanup thread has removed the file of an expired session
\* and not yet deleted its entry.
C14_Witness ==
    /\ sw.file_path # <<>>
    /\ sw.file_path \notin files
    /\ \E s \in DOMAIN session_data :
         session_data[s].file_path = sw.file_path

\* C15: every session in the store has text that is not empty, and not blank;
\* no step changes the text of a session in the store.
C15_StoredTextNonEmpty ==
    [][ /\ \A s \in DOMAIN session_data' :
             /\ session_data'[s].text # <<>>
             /\ strip(session_data'[s].text) = session_data'[s].text
        /\ \A s \in DOMAIN session_data' \cap DOMAIN session_data :
             session_data'[s].text = session_data[s].text ]_vars

\* C15's case: a PDF whose text had surrounding whitespace was inserted with
\* the trimmed text, and an /ask has since touched the session.
C15_Witness ==
    \E s \in DOMAIN session_data :
        /\ session_data[s].text = <<"ok">>
        /\ session_data[s].timestamp > 0
        /\ sent.req.route = "ask"
        /\ sent.resp.status = 200

\* A step of the handler of the given route: the step in which it returns, or
\* one that leaves a request thread inside it.
StepOf(route) ==
    \/ Answers /\ sent'.req.route = route
    \/ \E t \in DOMAIN th : th'[t] # th[t] /\ th'[t].req.route = route

\* C16: no step of /session/<id> or /health changes the store or the upload
\* folder; no step of an /ask that is answered 400 changes the store; a step
\* that changes a session in the store is the touch of an /ask that goes on to
\* be answered 200, and it changes the timestamp of the session asked about,
\* to now, and nothing else.
C16_ReadsLeaveStoreUnchanged ==
    [][ /\ (StepOf("session") \/ StepOf("health"))
             => /\ session_data' = session_data
                /\ key_order' = key_order
                /\ files' = files
        /\ (Answers /\ sent'.req.route = "ask" /\ sent'.resp.status # 200)
             => session_data' = session_data
        /\ \A t \in DOMAIN th :
             (th[t].pc = "ask_locked" /\ th'[t].pc = "idle")
             => /\ session_data' = session_data
                /\ sent'.resp.status = 400
        /\ \A t \in DOMAIN th :
             (th[t].pc = "agent" /\ th'[t].pc = "idle")
             => sent'.resp.status = 200
        /\ \A s \in DOMAIN session_data' \cap DOMAIN session_data :
             session_data'[s] # session_data[s]
             => /\ \E t \in DOMAIN th :
                     /\ th[t].pc = "ask_locked"
                     /\ th[t].session_id = s
                     /\ th'[t].pc = "agent"
                /\ session_data' =
                     [session_data EXCEPT ![s].timestamp = now] ]_vars

\* C16's case: /session/<id> has reported a session that an earlier /ask had
\* touched, and the session still has the timestamp of that touch.
C16_Witness ==
    /\ sent.req.route = "session"
    /\ sent.resp.status = 200
    /\ sent.session_id \in DOMAIN session_data
    /\ Timestamp(sent.session_id) > 0
    /\ Timestamp(sent.session_id) < now

\* The session is in the store and its last touch is more than 30 minutes ago.
Expired(s) ==
    /\ s \in DOMAIN session_data
    /\ now - last_touch[s] > SESSION_TIMEOUT_MINUTES

\* C17: under fair scheduling, a session in the store whose last touch is
\* more than 30 minutes ago is eventually deleted by the cleanup thread,
\* unless an /ask touches it first; the cleanup thread deletes an entry only
\* after it has tried to remove the session's file; and a pass that read its
\* current_time more than 30 minutes after a session's last touch ends with
\* the session out of the store.
C17_ExpiredSessionEventuallySwept ==
    /\ \A s \in UUIDs :
         Expired(s)
            ~> (s \in swept \/ (s \in DOMAIN session_data /\ ~Expired(s)))
    /\ [][ /\ \A s \in swept' \ swept :
                sw.file_path = session_data[s].file_path
           /\ (sw.pc = "delete" /\ sw'.pc = "sleep")
                => \A s \in DOMAIN last_touch :
                     sw.current_time - last_touch[s]
                        > SESSION_TIMEOUT_MINUTES
                     => s \in swept ]_vars

\* C17's case: the cleanup thread has deleted a session that had been touched
\* by an /ask, more than 30 minutes after that touch.
C17_Witness ==
    \E s \in swept :
        /\ last_touch[s] > 0
        /\ now - last_touch[s] > SESSION_TIMEOUT_MINUTES

\* No /upload is between saving its file and its answer, and the cleanup
\* thread is asleep between two passes.
Quiescent ==
    /\ \A t \in DOMAIN th :
         th[t].pc \notin {"extract", "insert_wait", "insert"}
    /\ sw.pc = "sleep"

\* C18: when no /upload and no pass is in progress and no failed save or
\* removal has left a file behind, the files in the upload folder are the
\* file_path values of the sessions in the store, no two sessions sharing one.
C18_NoOrphanFiles ==
    (Quiescent /\ leaked = {})
    => /\ files = {session_data[s].file_path : s \in DOMAIN session_data}
       /\ \A s1, s2 \in DOMAIN session_data :
            session_data[s1].file_path = session_data[s2].file_path
               => s1 = s2

\* C18's case: of two uploads that succeeded one has been swept, file and
\* entry, and the other is in the store with its file.
C18_Witness ==
    /\ Quiescent
    /\ leaked = {}
    /\ Cardinality(DOMAIN session_data) = 1
    /\ Cardinality(files) = 1
    /\ swept # {}

====
